---- MODULE Spec2Model ----
(***************************************************************************)
(* Model of tools/scan_module_deps.cpp: the module-dependency scanner and  *)
(* BUILD-file synchroniser.                                                *)
(*                                                                         *)
(* Strings are sequences of symbols.  A symbol is a character ("a", ":",   *)
(* "(") or a lexeme that the code only ever handles as a unit              *)
(* ("cc_module_library", "module_interfaces", ".ixx").  The symbol set is  *)
(* prefix-free, so symbol-wise lexicographic order is std::string order.   *)
(***************************************************************************)
EXTENDS Integers, Sequences, FiniteSets, TLC

VARIABLES
    argGiven,      \* argc >= 2
    rootExists,    \* fs::exists(project_root)
    tree,          \* the .ixx files under the project root (set of file records)
    dirOrder,      \* order in which the directory iterators return the files
    buildLoc,      \* where BUILD lives: "src", "root" or "none"
    readable,      \* BUILD can be opened for reading
    writable,      \* BUILD can be opened for writing
    disk,          \* text of BUILD on disk
    hw,            \* std::thread::hardware_concurrency()
    hashOrder,     \* iteration policy of std::unordered_map in this build
    divTrap,       \* whether integer division by zero traps in this build
    pc,            \* position of main
    run,           \* number of the current invocation of the tool
    exitCode,      \* exit status of the current invocation (-1 while running)
    build_file_path, \* directory of the chosen BUILD, relative to the root
    build_targets, \* ModuleScanner::build_targets
    modules,       \* ModuleScanner::modules
    module_deps,   \* ModuleScanner::module_deps
    ixx_files,     \* scanProjectModules: the enumerated file list
    workers,       \* scanProjectModules: the spawned tasks
    joined,        \* scanProjectModules: number of futures already collected
    original_content, \* updateBuildFile: text read at its start
    content,       \* updateBuildFile: text after all per-target edits
    openedForWrite,\* updateBuildFile: the ofstream was constructed
    wrote,         \* updateBuildFile: the text was written
    firstDisk      \* text of BUILD when the first invocation ended

vars == <<argGiven, rootExists, tree, dirOrder, buildLoc, readable, writable,
          disk, hw, hashOrder, divTrap, pc, run, exitCode, build_file_path,
          build_targets, modules, module_deps, ixx_files, workers, joined,
          original_content, content, openedForWrite, wrote, firstDisk>>

----------------------------------------------------------------------------
(* Bounds *)
MaxHW    == 2      \* largest reported hardware parallelism
MaxFiles == 3      \* largest number of .ixx files in a project tree
MaxRuns  == 2      \* invocations of the tool in a row

----------------------------------------------------------------------------
(* std::string *)

\* Symbols in ascending order of the strings they stand for.
SymbolOrder ==
    <<"*", "-", ".h", ".hpp", ".ixx", "/", ":", "a", "b", "h", "m", "p", "src", "sub", "t", "u", "x">>

Rank(c) == CHOOSE i \in 1..Len(SymbolOrder) : SymbolOrder[i] = c

RECURSIVE StrLess(_, _)
\* operator< of std::string
StrLess(s, t) ==
    IF t = <<>> THEN FALSE
    ELSE IF s = <<>> THEN TRUE
    ELSE IF Head(s) = Head(t) THEN StrLess(Tail(s), Tail(t))
    ELSE Rank(Head(s)) < Rank(Head(t))

StartsWith(s, p) == Len(s) >= Len(p) /\ SubSeq(s, 1, Len(p)) = p
EndsWith(s, p)   == Len(s) >= Len(p) /\ SubSeq(s, Len(s) - Len(p) + 1, Len(s)) = p

MinOf(S) == CHOOSE i \in S : \A j \in S : i <= j

\* The indices i >= from of s, ascending, at which s[i] is one of the symbols C
Positions(s, from, C) ==
    LET hit(i) == i >= from /\ s[i] \in C
    IN SelectSeq([i \in 1..Len(s) |-> i], hit)

\* std::string::find(c, from): 1-based index of the first c at or after from, 0 for npos
FindChar(s, c, from) ==
    LET S == {i \in from..Len(s) : s[i] = c}
    IN IF S = {} THEN 0 ELSE MinOf(S)

\* std::string::find(p): 1-based index of the first occurrence of p, 0 for npos
FindStr(s, p, from) ==
    LET S == {i \in from..(Len(s) - Len(p) + 1) : SubSeq(s, i, i + Len(p) - 1) = p}
    IN IF S = {} THEN 0 ELSE MinOf(S)

RECURSIVE Insert(_, _)
Insert(x, sorted) ==
    IF sorted = <<>> THEN <<x>>
    ELSE IF StrLess(x, Head(sorted)) THEN <<x>> \o sorted
    ELSE <<Head(sorted)>> \o Insert(x, Tail(sorted))

RECURSIVE Sort(_)
\* std::sort on a vector of strings
Sort(v) == IF v = <<>> THEN <<>> ELSE Insert(Head(v), Sort(Tail(v)))

RECURSIVE Unique(_)
\* erase(std::unique(...)): drop consecutive duplicates
Unique(v) ==
    IF Len(v) <= 1 THEN v
    ELSE IF v[1] = v[2] THEN Unique(Tail(v))
    ELSE <<v[1]>> \o Unique(Tail(v))

RECURSIVE Concat(_)
Concat(ss) == IF ss = <<>> THEN <<>> ELSE Head(ss) \o Concat(Tail(ss))

RECURSIVE JoinWith(_, _)
JoinWith(ss, sep) ==
    IF ss = <<>> THEN <<>>
    ELSE IF Len(ss) = 1 THEN ss[1]
    ELSE ss[1] \o sep \o JoinWith(Tail(ss), sep)

Range(f) == {f[i] : i \in DOMAIN f}

\* m[k] = v on an unordered_map held as a function
Put(m, k, v) == [x \in (DOMAIN m) \cup {k} |-> IF x = k THEN v ELSE m[x]]

EmptyMap == [x \in {} |-> <<>>]

----------------------------------------------------------------------------
(* Interface-file parser *)

\* fs::path::filename(): the part after the last '/'
RECURSIVE Filename(_)
Filename(path) ==
    LET i == FindChar(path, "/", 1)
    IN IF i = 0 THEN path ELSE Filename(SubSeq(path, i + 1, Len(path)))

\* std::replace(begin, end, ':', '-')
ReplaceColon(s) == [i \in 1..Len(s) |-> IF s[i] = ":" THEN "-" ELSE s[i]]

ExpectedFilename(module_name) == ReplaceColon(module_name) \o <<".ixx">>

validateFilenameModuleName(filename, module_name) ==
    LET base_name == IF EndsWith(filename, <<".ixx">>)
                     THEN SubSeq(filename, 1, Len(filename) - 1)
                     ELSE filename
        expected  == ExpectedFilename(module_name)
    IN base_name = SubSeq(expected, 1, Len(expected) - 1)

IsModuleImport(import_name) ==
    /\ import_name # <<>>
    /\ ~EndsWith(import_name, <<".h">>)
    /\ ~EndsWith(import_name, <<".hpp">>)

\* A file record f carries what the three regular expressions capture from
\* the first MAX_READ_SIZE bytes: f.decl is the name in "export module X;"
\* (<<>> when there is none) and f.imps the names of the import and export
\* import statements, in order of appearance.
extractModuleInfo(f) ==
    [name              |-> f.decl,
     imports           |-> Unique(Sort(SelectSeq(f.imps, IsModuleImport))),
     file_path         |-> f.path,
     filename_valid    |-> IF f.decl # <<>>
                           THEN validateFilenameModuleName(Filename(f.path), f.decl)
                           ELSE TRUE,
     expected_filename |-> IF f.decl # <<>> THEN ExpectedFilename(f.decl) ELSE <<>>]

----------------------------------------------------------------------------
(* Dependency resolver *)

\* A cleaning pass that prefixes a bare partition with the importing module's
\* whole name instead of its primary module
RECURSIVE CleanImportsOwnPrefix(_, _)
CleanImportsOwnPrefix(module_name, imports) ==
    IF imports = <<>> THEN <<>>
    ELSE LET import == Head(imports)
             rest   == CleanImportsOwnPrefix(module_name, Tail(imports))
         IN IF import # <<>> /\ import # module_name
            THEN IF StartsWith(import, <<":">>)
                 THEN <<module_name \o import>> \o rest
                 ELSE <<import>> \o rest
            ELSE rest

\* lines 207-227: the cleaned import list of one module
RECURSIVE CleanImports(_, _)
CleanImports(module_name, imports) ==
    IF imports = <<>> THEN <<>>
    ELSE LET import == Head(imports)
             rest   == CleanImports(module_name, Tail(imports))
         IN IF import # <<>> /\ import # module_name
            THEN IF StartsWith(import, <<":">>)
                 THEN LET colon_pos   == FindChar(module_name, ":", 1)
                          main_module == IF colon_pos # 0
                                         THEN SubSeq(module_name, 1, colon_pos - 1)
                                         ELSE module_name
                      IN <<main_module \o import>> \o rest
                 ELSE <<import>> \o rest
            ELSE rest

RECURSIVE SetToSeq(_)
SetToSeq(S) == IF S = {} THEN <<>>
               ELSE LET x == CHOOSE y \in S : TRUE IN <<x>> \o SetToSeq(S \ {x})

\* A resolver that leaves the partitions to the explicit imports
PartitionsNotFolded(module_name, table) == <<>>

\* lines 229-236: the partitions a primary module gets as dependencies
Partitions(module_name, table) ==
    IF FindChar(module_name, ":", 1) = 0
    THEN SetToSeq({other \in DOMAIN table : StartsWith(other, module_name \o <<":">>)})
    ELSE <<>>

\* A resolver that stores a list for every module of the table
processModuleDependenciesKeepEmpty(table) ==
    LET clean(m) == CleanImports(m, table[m].imports) \o Partitions(m, table)
    IN [m \in DOMAIN table |-> Unique(Sort(clean(m)))]

\* lines 203-245: the dependency graph of a module table
processModuleDependencies(table) ==
    LET clean(m) == CleanImports(m, table[m].imports) \o Partitions(m, table)
        keys     == {m \in DOMAIN table : clean(m) # <<>>}
    IN [m \in keys |-> Unique(Sort(clean(m)))]


----------------------------------------------------------------------------
(* std::unordered_map with an observable iteration order *)

\* An unordered_map whose iteration order matters is held as the sequence of
\* its keys in order of first insertion plus the mapping.  The standard leaves
\* the iteration order unspecified; hashOrder fixes the policy of the build:
\* "front" links a new node at the head of the element list (iteration is the
\* reverse of insertion), "back" appends it.
EmptyUMap == [order |-> <<>>, map |-> EmptyMap]

UPut(m, k, v) ==
    [order |-> IF k \in DOMAIN m.map THEN m.order ELSE Append(m.order, k),
     map   |-> Put(m.map, k, v)]

Reverse(v) == [i \in 1..Len(v) |-> v[Len(v) + 1 - i]]

IterationOrder(m, policy) == IF policy = "front" THEN Reverse(m.order) ELSE m.order

----------------------------------------------------------------------------
(* Descriptor text: scanning *)

WS == {" ", "\n", "    ", "        "}

Q == "\""

TargetKinds == {"cc_module_library", "cc_module_binary"}

\* \s* : index of the first symbol at or after i that is not white space
RECURSIVE SkipWS(_, _)
SkipWS(t, i) == IF i <= Len(t) /\ t[i] \in WS THEN SkipWS(t, i + 1) ELSE i

At(t, i, c) == i <= Len(t) /\ t[i] = c

NoMatch == [end |-> 0]

\* \s*\(\s*name\s*=\s*\" from index i: index of the opening quote, 0 if no match
NameHeader(t, i) ==
    LET j1 == SkipWS(t, i)
        j2 == SkipWS(t, j1 + 1)
        j3 == SkipWS(t, j2 + 1)
        j4 == SkipWS(t, j3 + 1)
    IN IF At(t, j1, "(") /\ At(t, j2, "name") /\ At(t, j3, "=") /\ At(t, j4, Q)
       THEN j4 ELSE 0

\* build_target_regex anchored at index i
TargetMatchAt(t, i) ==
    IF ~(i <= Len(t) /\ t[i] \in TargetKinds) THEN NoMatch
    ELSE LET q1 == NameHeader(t, i + 1)
             q2 == IF q1 = 0 THEN 0 ELSE FindChar(t, Q, q1 + 1)
         IN IF q1 # 0 /\ q2 > q1 + 1
            THEN [end |-> q2, position |-> i, type |-> t[i],
                  name |-> SubSeq(t, q1 + 1, q2 - 1)]
            ELSE NoMatch

\* The matches whose start lies after the end of the match before them
RECURSIVE NonOverlapping(_, _)
NonOverlapping(ms, last_end) ==
    IF ms = <<>> THEN <<>>
    ELSE IF Head(ms).position > last_end
         THEN <<Head(ms)>> \o NonOverlapping(Tail(ms), Head(ms).end)
    ELSE NonOverlapping(Tail(ms), last_end)

\* std::sregex_iterator over build_target_regex: all matches from index i on
TargetMatches(t, i) ==
    LET starts == Positions(t, i, TargetKinds)
        hit(k) == TargetMatchAt(t, k).end # 0
        found  == SelectSeq(starts, hit)
    IN NonOverlapping([n \in 1..Len(found) |-> TargetMatchAt(t, found[n])], 0)

\* The bracket-balancing loop of lines 368-379 and 568-579 over the brackets
\* at the indices ps: the position and the count it stops with.
RECURSIVE ScanBrackets(_, _, _, _)
ScanBrackets(t, ps, paren_count, found_open) ==
    IF ps = <<>> THEN [pos |-> Len(t) + 1, paren_count |-> paren_count]
    ELSE IF t[Head(ps)] = "("
         THEN ScanBrackets(t, Tail(ps), paren_count + 1, TRUE)
    ELSE IF found_open /\ paren_count - 1 = 0
         THEN [pos |-> Head(ps), paren_count |-> 0]
    ELSE ScanBrackets(t, Tail(ps), paren_count - 1, found_open)

ScanParens(t, pos, paren_count, found_open) ==
    ScanBrackets(t, Positions(t, pos, {"(", ")"}), paren_count, found_open)

\* module_interfaces_regex anchored at index i: the captured group, <<>> if none
InterfacesMatchAt(t, i) ==
    IF ~At(t, i, "module_interfaces") THEN <<>>
    ELSE LET j1 == SkipWS(t, i + 1)
             j2 == SkipWS(t, j1 + 1)
         IN IF ~At(t, j1, "=") THEN <<>>
            ELSE IF At(t, j2, "[")
                 THEN LET k == FindChar(t, "]", j2 + 1)
                      IN IF k = 0 THEN <<>> ELSE SubSeq(t, j2, k)
            ELSE IF At(t, j2, "glob") /\ At(t, j2 + 1, "(")
                 THEN LET k == FindChar(t, ")", j2 + 2)
                      IN IF k = 0 THEN <<>> ELSE SubSeq(t, j2, k)
            ELSE <<>>

\* std::regex_search(target_content, module_interfaces_regex): first capture
InterfacesSearch(t, i) ==
    LET S == {k \in i..Len(t) : InterfacesMatchAt(t, k) # <<>>}
    IN IF S = {} THEN <<>> ELSE InterfacesMatchAt(t, MinOf(S))

\* [^\"]+\.ixx
IxxCapture(c) == Len(c) >= 2 /\ c[Len(c)] = ".ixx"

\* Iteration of glob_expr_pattern \"([^\"]+)\" (ixx = FALSE) or of
\* file_pattern \"([^\"]+\.ixx)\" (ixx = TRUE): the captures in order
RECURSIVE QuotedMatches(_, _, _)
QuotedMatches(t, i, ixx) ==
    LET q1 == FindChar(t, Q, i)
        q2 == FindChar(t, Q, q1 + 1)
    IN IF q1 = 0 \/ q2 = 0 THEN <<>>
       ELSE IF q2 > q1 + 1 /\ (ixx => IxxCapture(SubSeq(t, q1 + 1, q2 - 1)))
            THEN <<SubSeq(t, q1 + 1, q2 - 1)>> \o QuotedMatches(t, q2 + 1, ixx)
       ELSE QuotedMatches(t, q1 + 1, ixx)

\* glob_pattern anchored at index i: the captured list content, <<>> if none
GlobMatchAt(t, i) ==
    IF ~(At(t, i, "glob") /\ At(t, i + 1, "(")) THEN <<>>
    ELSE LET j1 == SkipWS(t, i + 2)
             j2 == SkipWS(t, j1 + 1)
             k  == FindChar(t, "]", j1 + 1)
             j3 == SkipWS(t, k + 1)
         IN IF At(t, j1, "[") /\ k > j1 + 1 /\ At(t, j3, ")")
            THEN SubSeq(t, IF j2 < k THEN j2 ELSE k - 1, k - 1)
            ELSE <<>>

GlobSearch(t, i) ==
    LET S == {k \in i..Len(t) : GlobMatchAt(t, k) # <<>>}
    IN IF S = {} THEN <<>> ELSE GlobMatchAt(t, MinOf(S))

----------------------------------------------------------------------------
(* File system *)

\* operator/ of fs::path on paths relative to the project root (<<>> is the root)
PathJoin(a, b) == IF a = <<>> THEN b ELSE IF b = <<>> THEN a ELSE a \o <<"/">> \o b

Under(path, dir) == dir = <<>> \/ StartsWith(path, dir \o <<"/">>)

\* fs::relative(path, base) for a path under base
Relative(path, base) ==
    IF base = <<>> THEN path ELSE SubSeq(path, Len(base) + 2, Len(path))

DirectlyIn(path, dir) == Under(path, dir) /\ FindChar(Relative(path, dir), "/", 1) = 0

\* the directories of a tree: every proper prefix of a file path, and the root
DirsOf(files) ==
    {<<>>} \cup UNION {{SubSeq(f.path, 1, i - 1) : i \in {j \in 1..Len(f.path) : f.path[j] = "/"}}
                       : f \in files}

\* fs::exists for a directory
DirExists(files, loc, dir) ==
    dir \in DirsOf(files) \/ (loc = "src" /\ dir = <<"src">>)

----------------------------------------------------------------------------
(* Build-descriptor reader *)

SuffixRecursive == <<"*", "*", "/", "*", ".ixx">>
SuffixSingle    == <<"*", ".ixx">>

StripSlash(d) == IF EndsWith(d, <<"/">>) THEN SubSeq(d, 1, Len(d) - 1) ELSE d

\* processGlobExpression: the paths it appends to target.module_interfaces;
\* order is the order in which the directory iterators return the files
processGlobExpression(glob_expr, project_root, files, loc, order) ==
    LET recursive == EndsWith(glob_expr, SuffixRecursive)
        single    == ~recursive /\ EndsWith(glob_expr, SuffixSingle)
        suffix    == IF recursive THEN SuffixRecursive ELSE SuffixSingle
        dir_path  == StripSlash(SubSeq(glob_expr, 1, Len(glob_expr) - Len(suffix)))
        full_dir_path == PathJoin(project_root, dir_path)
        listed(pth) == IF recursive THEN Under(pth, full_dir_path)
                       ELSE DirectlyIn(pth, full_dir_path)
        entries   == SelectSeq(order, listed)
    IN IF (recursive \/ single) /\ DirExists(files, loc, full_dir_path)
       THEN [i \in 1..Len(entries) |-> Relative(entries[i], project_root)]
       ELSE <<>>

RECURSIVE GlobAll(_, _, _, _, _)
GlobAll(exprs, project_root, files, loc, order) ==
    IF exprs = <<>> THEN <<>>
    ELSE processGlobExpression(Head(exprs), project_root, files, loc, order)
         \o GlobAll(Tail(exprs), project_root, files, loc, order)

\* parseModuleInterfaces: the value of target.module_interfaces
parseModuleInterfaces(interfaces_str, project_root, files, loc, order) ==
    IF FindStr(interfaces_str, <<"glob", "(">>, 1) # 0
    THEN LET glob_content == GlobSearch(interfaces_str, 1)
         IN GlobAll(QuotedMatches(glob_content, 1, FALSE), project_root, files, loc, order)
    ELSE QuotedMatches(interfaces_str, 1, TRUE)

\* lines 358-392: the target read from one match of build_target_regex, and
\* whether it is stored (the bracket scan came back to zero)
ReadTarget(text, m, project_root, files, loc, order) ==
    LET scan == ScanParens(text, m.position, 0, FALSE)
        target_content == IF scan.paren_count = 0
                          THEN SubSeq(text, m.position, scan.pos)
                          ELSE <<>>
        interfaces_str == InterfacesSearch(target_content, 1)
    IN [stored |-> scan.paren_count = 0,
        target |-> [name |-> m.name,
                    type |-> m.type,
                    module_interfaces |->
                        IF interfaces_str # <<>>
                        THEN parseModuleInterfaces(interfaces_str, project_root, files, loc, order)
                        ELSE <<>>,
                    module_dependencies |-> EmptyUMap]]

RECURSIVE ReadTargets(_, _, _, _, _, _, _)
ReadTargets(text, ms, acc, project_root, files, loc, order) ==
    IF ms = <<>> THEN acc
    ELSE LET r == ReadTarget(text, Head(ms), project_root, files, loc, order)
         IN ReadTargets(text, Tail(ms),
                        IF r.stored THEN UPut(acc, r.target.name, r.target) ELSE acc,
                        project_root, files, loc, order)

\* parseBuildFile on a readable descriptor: the resulting build_targets
parseBuildFile(text, project_root, files, loc, order) ==
    ReadTargets(text, TargetMatches(text, 1), EmptyUMap, project_root, files, loc, order)

----------------------------------------------------------------------------
(* Target-dependency calculator *)

FileAt(files, path) == {f \in files : f.path = path}

\* lines 480-494: the projection of one target
RECURSIVE Projection(_, _, _, _)
Projection(interfaces, acc, files, deps) ==
    IF interfaces = <<>> THEN acc
    ELSE LET file_path == PathJoin(<<"src">>, Head(interfaces))
             hit  == FileAt(files, file_path)
             info == extractModuleInfo(CHOOSE f \in hit : TRUE)
         IN Projection(Tail(interfaces),
                       IF hit # {} /\ info.name # <<>> /\ info.name \in DOMAIN deps
                       THEN UPut(acc, info.name, deps[info.name])
                       ELSE acc,
                       files, deps)

\* calculateTargetDependencies: build_targets with every projection filled in
calculateTargetDependencies(targets, files, deps) ==
    [order |-> targets.order,
     map   |-> [n \in DOMAIN targets.map |->
                  [targets.map[n] EXCEPT !.module_dependencies =
                      Projection(targets.map[n].module_interfaces,
                                 targets.map[n].module_dependencies, files, deps)]]]


----------------------------------------------------------------------------
(* Descriptor text patcher *)

QuoteAll(v) == [i \in 1..Len(v) |-> <<Q>> \o v[i] \o <<Q>>]

\* lines 534-539: one line of the block
EntryLine(module_name, deps) ==
    <<"        ", Q>> \o module_name \o <<Q, ":", " ", "[">>
    \o JoinWith(QuoteAll(deps), <<",", " ">>) \o <<"]", ",", "\n">>

\* The order in which the loop of line 527 visits the keys of the projection
KeyOrder(target, policy) == IterationOrder(target.module_dependencies, policy)

\* lines 519-554: new_module_deps.  "WARN" stands for the fixed text of the
\* warning and "EXPECT" for the fixed text inside the parentheses.
NewModuleDeps(target, table, policy) ==
    LET keys    == KeyOrder(target, policy)
        deps    == target.module_dependencies.map
        invalid(k) == k \in DOMAIN table /\ ~table[k].filename_valid
        bad     == SelectSeq(keys, invalid)
        invalid_modules ==
            [i \in 1..Len(bad) |->
                bad[i] \o <<" ", "(", "EXPECT", " ">>
                \o table[bad[i]].expected_filename \o <<")">>]
    IN <<"module_dependencies", " ", "=", " ", "{", "\n">>
       \o Concat([i \in 1..Len(keys) |-> EntryLine(keys[i], deps[keys[i]])])
       \o <<"    ", "}">>
       \o (IF bad # <<>>
           THEN <<",", " ", "#", " ", "WARN", " ">> \o JoinWith(invalid_modules, <<",", " ">>)
           ELSE <<>>)
       \o <<",">>

\* The regular expression a target name is inside target_pattern (line 557),
\* as a sequence of atoms, each the set of symbols it matches: a letter
\* matches itself, "[" opens a bracket expression that matches any one of the
\* symbols up to the next "]".  ok is FALSE when the bracket expression is
\* not closed, for which the constructor of std::regex (line 558) throws.
RECURSIVE NamePattern(_)
NamePattern(name) ==
    IF name = <<>> THEN [ok |-> TRUE, atoms |-> <<>>]
    ELSE IF Head(name) = "["
         THEN LET k == FindChar(name, "]", 2)
                  r == NamePattern(SubSeq(name, k + 1, Len(name)))
              IN IF k = 0 THEN [ok |-> FALSE, atoms |-> <<>>]
                 ELSE [ok |-> r.ok,
                       atoms |-> <<{name[j] : j \in 2..(k - 1)}>> \o r.atoms]
    ELSE LET r == NamePattern(Tail(name))
         IN [ok |-> r.ok, atoms |-> <<{Head(name)}>> \o r.atoms]

\* target_regex of line 557 anchored at index i
TargetPatternAt(t, type, name, i) ==
    LET q1    == IF t[i] = type THEN NameHeader(t, i + 1) ELSE 0
        atoms == NamePattern(name).atoms
    IN /\ q1 # 0
       /\ q1 + Len(atoms) + 1 <= Len(t)
       /\ \A j \in 1..Len(atoms) : t[q1 + j] \in atoms[j]
       /\ t[q1 + Len(atoms) + 1] = Q

\* std::regex_search(content, target_regex): index of the first match, 0 if none
TargetPatternSearch(t, type, name, i) ==
    LET S == {k \in i..Len(t) : TargetPatternAt(t, type, name, k)}
    IN IF S = {} THEN 0 ELSE MinOf(S)

\* existing_deps_regex anchored at index i: index of the last matched symbol, 0 if none
ExistingDepsMatchAt(t, i) ==
    IF ~At(t, i, "module_dependencies") THEN 0
    ELSE LET j1 == SkipWS(t, i + 1)
             j2 == SkipWS(t, j1 + 1)
             k  == IF At(t, j1, "=") /\ At(t, j2, "{") THEN FindChar(t, "}", j2 + 1) ELSE 0
         IN IF k = 0 THEN 0
            ELSE IF At(t, k + 1, ",") THEN k + 1 ELSE k

ExistingDepsSearch(t, i) ==
    LET S == {k \in i..Len(t) : ExistingDepsMatchAt(t, k) # 0}
    IN IF S = {} THEN 0 ELSE MinOf(S)

\* The text from index i on with every match that starts at one of ms replaced
RECURSIVE ReplaceAt(_, _, _, _)
ReplaceAt(t, i, ms, new) ==
    IF ms = <<>> THEN SubSeq(t, i, Len(t))
    ELSE IF Head(ms) < i THEN ReplaceAt(t, i, Tail(ms), new)
    ELSE SubSeq(t, i, Head(ms) - 1) \o new
         \o ReplaceAt(t, ExistingDepsMatchAt(t, Head(ms)) + 1, Tail(ms), new)

\* std::regex_replace(target_content, existing_deps_regex, new_module_deps)
RegexReplace(t, i, new) ==
    LET hit(k) == ExistingDepsMatchAt(t, k) # 0
    IN ReplaceAt(t, i, SelectSeq(Positions(t, i, {"module_dependencies"}), hit), new)

\* lines 604-621 over the brackets and separators at the indices ps: index of
\* the separator that ends the module_interfaces field, 0 if the loop runs
\* off the end
RECURSIVE FieldEndAt(_, _, _)
FieldEndAt(t, ps, depth) ==
    IF ps = <<>> THEN 0
    ELSE IF t[Head(ps)] \in {"[", "("} THEN FieldEndAt(t, Tail(ps), depth + 1)
    ELSE IF t[Head(ps)] \in {"]", ")"} THEN FieldEndAt(t, Tail(ps), depth - 1)
    ELSE IF depth = 0 THEN Head(ps)
    ELSE FieldEndAt(t, Tail(ps), depth)

FieldEnd(t, line_pos, depth) ==
    FieldEndAt(t, Positions(t, line_pos, {"[", "(", "]", ")", ","}), depth)

\* An insertion that lands in front of the separator instead of behind it
InsertBlockBeforeSeparator(target_content, new_module_deps) ==
    LET interfaces_pos == FindStr(target_content, <<"module_interfaces">>, 1)
        equals_pos     == IF interfaces_pos = 0 THEN 0
                          ELSE FindChar(target_content, "=", interfaces_pos)
        line_pos       == IF equals_pos = 0 THEN 0
                          ELSE FieldEnd(target_content, equals_pos + 1, 0)
    IN IF line_pos = 0 THEN target_content
       ELSE SubSeq(target_content, 1, line_pos - 1)
            \o <<"\n", "    ">> \o new_module_deps
            \o SubSeq(target_content, line_pos, Len(target_content))

\* lines 594-624: target_content with the block added, or unchanged
InsertBlock(target_content, new_module_deps) ==
    LET interfaces_pos == FindStr(target_content, <<"module_interfaces">>, 1)
        equals_pos     == IF interfaces_pos = 0 THEN 0
                          ELSE FindChar(target_content, "=", interfaces_pos)
        line_pos       == IF equals_pos = 0 THEN 0
                          ELSE FieldEnd(target_content, equals_pos + 1, 0)
    IN IF line_pos = 0 THEN target_content
       ELSE SubSeq(target_content, 1, line_pos)
            \o <<"\n", "    ">> \o new_module_deps
            \o SubSeq(target_content, line_pos + 1, Len(target_content))

\* lines 582-624: the new text of one target's extent
PatchTarget(target_content, new_module_deps) ==
    IF ExistingDepsSearch(target_content, 1) # 0
    THEN RegexReplace(target_content, 1, new_module_deps)
    ELSE InsertBlock(target_content, new_module_deps)

\* lines 556-626: the text after the edit of one target
EditTarget(text, target, table, policy) ==
    LET start_pos == TargetPatternSearch(text, target.type, target.name, 1)
        scan      == ScanParens(text, start_pos, 0, FALSE)
    IN IF start_pos = 0 \/ scan.paren_count # 0 THEN text
       ELSE SubSeq(text, 1, start_pos - 1)
            \o PatchTarget(SubSeq(text, start_pos, scan.pos),
                           NewModuleDeps(target, table, policy))
            \o SubSeq(text, scan.pos + 1, Len(text))

\* lines 514-517: the writer skips a target whose projection is empty
Skipped(target) == target.module_dependencies.order = <<>>

\* lines 557-558: the loop reaches a target whose name is not a regular
\* expression; std::regex_error leaves updateBuildFile and main uncaught
PatternError(targets) ==
    \E n \in DOMAIN targets.map :
        ~Skipped(targets.map[n]) /\ ~NamePattern(n).ok

\* lines 514-627: the text after the edits of all targets, visited in order
RECURSIVE EditAll(_, _, _, _, _)
EditAll(text, names, targets, table, policy) ==
    IF names = <<>> THEN text
    ELSE LET target == targets.map[Head(names)]
         IN EditAll(IF Skipped(target) THEN text
                    ELSE EditTarget(text, target, table, policy),
                    Tail(names), targets, table, policy)


----------------------------------------------------------------------------
(* Inputs *)

math == <<"m", "a", "t", "h">>
app  == <<"a", "p", "p">>
p_a  == <<"p", ":", "a">>
p_b  == <<"p", ":", "b">>

SrcFile(name) == <<"src", "/">> \o name \o <<".ixx">>

\* The interface files a project tree is drawn from: two plain modules, the
\* second importing the first (twice) and a header; two partitions that import
\* each other and themselves by bare name, one of them in a file whose name
\* breaks the convention; their primary module without imports and, in a
\* subdirectory, with imports; a second declaration of a module; a file
\* without a module declaration
FilePool ==
    { [path |-> SrcFile(math), decl |-> math, imps |-> <<>>],
      [path |-> SrcFile(app),  decl |-> app,  imps |-> <<math, <<"x", ".h">>, math>>],
      [path |-> SrcFile(<<"p", "-", "a">>), decl |-> p_a, imps |-> <<<<":", "b">>, <<":", "a">>>>],
      [path |-> SrcFile(<<"p", "b">>),      decl |-> p_b, imps |-> <<<<":", "a">>>>],
      [path |-> SrcFile(<<"p">>),           decl |-> <<"p">>, imps |-> <<>>],
      [path |-> SrcFile(<<"sub", "/", "m">>), decl |-> math, imps |-> <<app>>],
      [path |-> SrcFile(<<"sub", "/", "p">>), decl |-> <<"p">>, imps |-> <<<<":", "a">>, math>>],
      [path |-> SrcFile(<<"x">>),           decl |-> <<>>, imps |-> <<math>>] }

Trees == {T \in SUBSET FilePool : Cardinality(T) <= MaxFiles}

Paths(T) == {f.path : f \in T}

\* The orders in which the directory iterators may return the files of a
\* tree: ascending and descending path order
DirOrders(T) == LET asc == Sort(SetToSeq(Paths(T))) IN {asc, Reverse(asc)}

Field(indent, body) == <<indent>> \o body \o <<",", "\n">>

NameField(name) == <<"name", " ", "=", " ", Q>> \o name \o <<Q>>

ListOf(items) == <<"[">> \o JoinWith(QuoteAll(items), <<",", " ">>) \o <<"]">>

InterfacesField(value) == <<"module_interfaces", " ", "=", " ">> \o value

\* A dependency block left in the descriptor by an earlier state of the sources
StaleBlock ==
    <<"module_dependencies", " ", "=", " ", "{", "\n">>
    \o EntryLine(app, <<<<"x">>>>) \o <<"    ", "}">>

\* The text of one target declaration
TargetText(kind, name, interfaces, block) ==
    <<kind, "(", "\n">>
    \o Field("    ", NameField(name))
    \o Field("    ", InterfacesField(interfaces))
    \o (IF block # <<>> THEN Field("    ", block) ELSE <<>>)
    \o <<")", "\n">>

FirstTargets ==
    {TargetText("cc_module_library", <<"a">>, v, b) :
        v \in { ListOf(<<math \o <<".ixx">>, app \o <<".ixx">>>>),
                ListOf(<<<<"p", "-", "a", ".ixx">>, <<"p", "b", ".ixx">>>>),
                <<"glob", "(">> \o ListOf(<<<<"*", ".ixx">>>>) \o <<")">> },
        b \in {<<>>, StaleBlock}}

SecondTargets ==
    { <<>>,
      TargetText("cc_module_binary", <<"b">>,
                 ListOf(<<app \o <<".ixx">>, math \o <<".ixx">>>>), <<>>),
      TargetText("cc_module_binary", <<"b">>,
                 <<"glob", "(">> \o ListOf(<<<<"*", "*", "/", "*", ".ixx">>>>) \o <<")">>,
                 StaleBlock) }

Texts == {t1 \o t2 : t1 \in FirstTargets, t2 \in SecondTargets}

BaseTree == {f \in FilePool : f.path \in {SrcFile(math), SrcFile(app)}}

\* The trees of the two plain modules and the second declaration of math
SmallTrees ==
    {T \in Trees : Paths(T) \subseteq {SrcFile(math), SrcFile(app), SrcFile(<<"sub", "/", "m">>)}}

BaseText ==
    TargetText("cc_module_library", <<"a">>,
               ListOf(<<math \o <<".ixx">>, app \o <<".ixx">>>>), <<>>)


\* The descriptor of the base project when it lies in the project root: the
\* interface files are listed relative to the descriptor's directory
RootBaseText ==
    TargetText("cc_module_library", <<"a">>,
               ListOf(<<<<"src", "/">> \o math \o <<".ixx">>,
                        <<"src", "/">> \o app \o <<".ixx">>>>), <<>>)

\* A target declaration whose last field, the interface files, has no
\* separator behind it
TargetTextNoSeparator(kind, name, interfaces) ==
    <<kind, "(", "\n">>
    \o Field("    ", NameField(name))
    \o <<"    ">> \o InterfacesField(interfaces) \o <<"\n", ")", "\n">>

\* The head of a declaration of library "a" that is never closed
OpenFragment == <<"cc_module_library", "(">> \o NameField(<<"a">>) \o <<"\n">>

BothFiles == ListOf(<<math \o <<".ixx">>, app \o <<".ixx">>>>)

OtherTarget == TargetText("cc_module_binary", <<"b">>, ListOf(<<app \o <<".ixx">>>>), <<>>)

\* Descriptors in which the patcher cannot locate library "a" (its field has
\* no separator; its name is a bracket expression that does not match the
\* name; its name is no regular expression; an unclosed declaration of the
\* same name precedes it), each followed by a binary it can locate
MissTexts ==
    { TargetTextNoSeparator("cc_module_library", <<"a">>, BothFiles) \o OtherTarget,
      TargetText("cc_module_library", <<"a", "[", "b", "]">>, BothFiles, <<>>) \o OtherTarget,
      TargetText("cc_module_library", <<"a", "[">>, BothFiles, <<>>) \o OtherTarget,
      OpenFragment \o TargetText("cc_module_library", <<"a">>, BothFiles, <<>>) \o OtherTarget }

----------------------------------------------------------------------------
(* Initial states *)

\* Environments in which the tool runs into one of the paths of main that end
\* early, or cannot write; they are explored on the base project.
Env(a, r, l, rd, wr) == [arg |-> a, root |-> r, loc |-> l, rd |-> rd, wr |-> wr]

GoodEnvs == {Env(TRUE, TRUE, l, TRUE, TRUE) : l \in {"src", "root"}}

FaultEnvs ==
    { Env(FALSE, TRUE, "src", TRUE, TRUE),
      Env(TRUE, FALSE, "src", TRUE, TRUE),
      Env(TRUE, TRUE, "none", TRUE, TRUE),
      Env(TRUE, TRUE, "src", FALSE, TRUE),
      Env(TRUE, TRUE, "src", TRUE, FALSE) }

InitScanner ==
    /\ pc = "start"
    /\ exitCode = -1
    /\ build_file_path = <<>>
    /\ build_targets = EmptyUMap
    /\ modules = EmptyMap
    /\ module_deps = EmptyMap
    /\ ixx_files = <<>>
    /\ workers = <<>>
    /\ joined = 0
    /\ original_content = <<>>
    /\ content = <<>>
    /\ openedForWrite = FALSE
    /\ wrote = FALSE

\* The scan is explored for every tree, file order and worker count on the
\* base descriptor; the reader and the patcher for every tree, file order,
\* descriptor, location and map policy with one worker; the descriptors the
\* patcher cannot locate a target in, and the root-relative descriptor, on
\* the small trees; the paths of main that end early on the base project.
Init ==
    /\ \E e \in GoodEnvs \cup FaultEnvs :
         /\ argGiven = e.arg
         /\ rootExists = e.root
         /\ buildLoc = e.loc
         /\ readable = e.rd
         /\ writable = e.wr
         /\ \/ /\ e \in FaultEnvs
               /\ tree = BaseTree /\ disk = BaseText
               /\ hw = 1 /\ hashOrder = "front"
            \/ /\ e \in GoodEnvs /\ e.loc = "src"
               /\ tree \in Trees /\ disk = BaseText
               /\ hw \in 0..MaxHW /\ hashOrder = "front"
            \/ /\ e \in GoodEnvs
               /\ tree \in Trees /\ disk \in Texts
               /\ hw = 1 /\ hashOrder \in {"front", "back"}
            \/ /\ e \in GoodEnvs
               /\ tree \in SmallTrees /\ disk \in MissTexts \cup {RootBaseText}
               /\ hw = 1 /\ hashOrder \in {"front", "back"}
    /\ dirOrder \in DirOrders(tree)
    /\ divTrap \in BOOLEAN
    /\ (divTrap = FALSE => hw = 0 \/ tree = {})
    /\ run = 1
    /\ firstDisk = <<>>
    /\ InitScanner

----------------------------------------------------------------------------
(* main *)

Min(a, b) == IF a < b THEN a ELSE b

\* lines 658-678: argument check, root check and the two-step BUILD search
Startup ==
    /\ pc = "start"
    /\ IF ~argGiven \/ ~rootExists \/ buildLoc = "none"
       THEN /\ pc' = "done"
            /\ exitCode' = 1
            /\ UNCHANGED build_file_path
       ELSE /\ pc' = "parse"
            /\ build_file_path' = IF buildLoc = "src" THEN <<"src">> ELSE <<>>
            /\ UNCHANGED exitCode
    /\ UNCHANGED <<argGiven, rootExists, tree, dirOrder, buildLoc, readable, writable,
                   disk, hw, hashOrder, divTrap, run, build_targets, modules,
                   module_deps, ixx_files, workers, joined, original_content,
                   content, openedForWrite, wrote, firstDisk>>

\* line 692: scanner.parseBuildFile(build_file_path)
ParseBuildFile ==
    /\ pc = "parse"
    /\ build_targets' = IF readable
                        THEN parseBuildFile(disk, build_file_path, tree, buildLoc, dirOrder)
                        ELSE build_targets
    /\ pc' = "scan"
    /\ UNCHANGED <<argGiven, rootExists, tree, dirOrder, buildLoc, readable, writable,
                   disk, hw, hashOrder, divTrap, run, exitCode, build_file_path,
                   modules, module_deps, ixx_files, workers, joined,
                   original_content, content, openedForWrite, wrote, firstDisk>>

\* line 160: num_threads
NumThreads(files) == Min(hw, Len(files))

\* lines 148-166: enumerate the files and compute the chunk size.  The
\* division by num_threads = 0 is undefined: the build either traps or carries
\* on with a loop that spawns nothing.
ScanEnumerate ==
    /\ pc = "scan"
    /\ ixx_files' = dirOrder
    /\ IF NumThreads(dirOrder) = 0 /\ divTrap
       THEN pc' = "crashed" /\ exitCode' = 136
       ELSE pc' = "workers" /\ UNCHANGED exitCode
    /\ UNCHANGED <<argGiven, rootExists, tree, dirOrder, buildLoc, readable, writable,
                   disk, hw, hashOrder, divTrap, run, build_file_path, build_targets,
                   modules, module_deps, workers, joined, original_content, content,
                   openedForWrite, wrote, firstDisk>>

\* lines 165-166: chunk_size and remainder
ChunkSize(n, w) == n \div w
Remainder(n, w) == n % w

\* A split that hands the surplus files to the last workers
ExtraForLast(i, n, w) == IF i >= w - Remainder(n, w) THEN 1 ELSE 0

\* line 170: worker i (counted from 0) takes one file more if i < remainder
Extra(i, n, w) == IF i < Remainder(n, w) THEN 1 ELSE 0

\* lines 169-185: one iteration of the spawning loop
SpawnWorker ==
    /\ pc = "workers"
    /\ Len(workers) < NumThreads(ixx_files)
    /\ LET i == Len(workers)
           n == Len(ixx_files)
           w == NumThreads(ixx_files)
           start == IF i = 0 THEN 0 ELSE workers[i].end
           end   == start + ChunkSize(n, w) + Extra(i, n, w)
       IN workers' = Append(workers, [start |-> start,
                                      end   |-> end,
                                      j     |-> start,
                                      results |-> <<>>])
    /\ UNCHANGED <<argGiven, rootExists, tree, dirOrder, buildLoc, readable, writable,
                   disk, hw, hashOrder, divTrap, pc, run, exitCode, build_file_path,
                   build_targets, modules, module_deps, ixx_files, joined,
                   original_content, content, openedForWrite, wrote, firstDisk>>

FileOf(path) == CHOOSE f \in tree : f.path = path

\* lines 174-179: one iteration of the loop of a worker task
WorkerStep(k) ==
    /\ pc = "workers"
    /\ k \in 1..Len(workers)
    /\ workers[k].j < workers[k].end
    /\ LET info == extractModuleInfo(FileOf(ixx_files[workers[k].j + 1]))
       IN workers' = [workers EXCEPT
                        ![k].j = @ + 1,
                        ![k].results = IF info.name # <<>> THEN Append(@, info) ELSE @]
    /\ UNCHANGED <<argGiven, rootExists, tree, dirOrder, buildLoc, readable, writable,
                   disk, hw, hashOrder, divTrap, pc, run, exitCode, build_file_path,
                   build_targets, modules, module_deps, ixx_files, joined,
                   original_content, content, openedForWrite, wrote, firstDisk>>

\* A collecting loop that does not wait for the task
FinishedOrNot(worker) == TRUE

\* line 189: future.get() returns once the task has run through its chunk
Finished(worker) == worker.j = worker.end

\* lines 190-192: the results of one future stored into the module table
RECURSIVE MergeResults(_, _)
MergeResults(table, results) ==
    IF results = <<>> THEN table
    ELSE MergeResults(Put(table, Head(results).name, Head(results)), Tail(results))

\* A collecting loop that takes the futures last to first
NextFutureReversed(ws, done) == Len(ws) - done

\* line 188: the collecting loop takes the futures in the order they were spawned
NextFuture(ws, done) == done + 1

\* lines 188-193: future.get() returns for the next future and its results are merged
Collect ==
    /\ pc = "workers"
    /\ Len(workers) = NumThreads(ixx_files)
    /\ joined < Len(workers)
    /\ LET k == NextFuture(workers, joined)
       IN /\ Finished(workers[k])
          /\ modules' = MergeResults(modules, workers[k].results)
    /\ joined' = joined + 1
    /\ UNCHANGED <<argGiven, rootExists, tree, dirOrder, buildLoc, readable, writable,
                   disk, hw, hashOrder, divTrap, pc, run, exitCode, build_file_path,
                   build_targets, module_deps, ixx_files, workers,
                   original_content, content, openedForWrite, wrote, firstDisk>>

\* line 196: processModuleDependencies() once every future has been collected
Resolve ==
    /\ pc = "workers"
    /\ Len(workers) = NumThreads(ixx_files)
    /\ joined = Len(workers)
    /\ module_deps' = processModuleDependencies(modules)
    /\ pc' = "calc"
    /\ UNCHANGED <<argGiven, rootExists, tree, dirOrder, buildLoc, readable, writable,
                   disk, hw, hashOrder, divTrap, run, exitCode, build_file_path,
                   build_targets, modules, ixx_files, workers, joined,
                   original_content, content, openedForWrite, wrote, firstDisk>>

\* line 700: scanner.calculateTargetDependencies(project_root)
Calculate ==
    /\ pc = "calc"
    /\ build_targets' = calculateTargetDependencies(build_targets, tree, module_deps)
    /\ pc' = "update"
    /\ UNCHANGED <<argGiven, rootExists, tree, dirOrder, buildLoc, readable, writable,
                   disk, hw, hashOrder, divTrap, run, exitCode, build_file_path,
                   modules, module_deps, ixx_files, workers, joined,
                   original_content, content, openedForWrite, wrote, firstDisk>>

\* lines 514-627 on the text read: the text after all edits
updateBuildFile(text) ==
    EditAll(text, IterationOrder(build_targets, hashOrder), build_targets, modules, hashOrder)

\* A writer that writes back unconditionally
AlwaysWrite(new_content, old_content) == TRUE

\* line 630: the text is written back only if it has changed
NeedsWrite(new_content, old_content) == new_content # old_content

\* lines 704-715: scanner.updateBuildFile(build_file_path), then main returns
\* 0; an exception thrown in the loop over the targets ends the process
\* (std::terminate) before the text is compared or written
Update ==
    /\ pc = "update"
    /\ IF ~readable
       THEN /\ UNCHANGED <<original_content, content, openedForWrite, wrote, disk>>
            /\ pc' = "done"
            /\ exitCode' = 0
       ELSE IF PatternError(build_targets)
       THEN /\ original_content' = disk
            /\ UNCHANGED <<content, openedForWrite, wrote, disk>>
            /\ pc' = "crashed"
            /\ exitCode' = 134
       ELSE /\ original_content' = disk
            /\ content' = updateBuildFile(disk)
            /\ openedForWrite' = NeedsWrite(content', disk)
            /\ wrote' = (NeedsWrite(content', disk) /\ writable)
            /\ disk' = IF NeedsWrite(content', disk) /\ writable THEN content' ELSE disk
            /\ pc' = "done"
            /\ exitCode' = 0
    /\ UNCHANGED <<argGiven, rootExists, tree, dirOrder, buildLoc, readable, writable,
                   hw, hashOrder, divTrap, run, build_file_path, build_targets,
                   modules, module_deps, ixx_files, workers, joined, firstDisk>>

\* The tool is invoked again on the tree as the previous invocation left it
Rerun ==
    /\ pc \in {"done", "crashed"}
    /\ run < MaxRuns
    /\ run' = run + 1
    /\ firstDisk' = IF run = 1 THEN disk ELSE firstDisk
    /\ pc' = "start"
    /\ exitCode' = -1
    /\ build_file_path' = <<>>
    /\ build_targets' = EmptyUMap
    /\ modules' = EmptyMap
    /\ module_deps' = EmptyMap
    /\ ixx_files' = <<>>
    /\ workers' = <<>>
    /\ joined' = 0
    /\ original_content' = <<>>
    /\ content' = <<>>
    /\ openedForWrite' = FALSE
    /\ wrote' = FALSE
    /\ UNCHANGED <<argGiven, rootExists, tree, dirOrder, buildLoc, readable, writable,
                   disk, hw, hashOrder, divTrap>>

Next ==
    \/ Startup
    \/ ParseBuildFile
    \/ ScanEnumerate
    \/ SpawnWorker
    \/ \E k \in 1..MaxHW : WorkerStep(k)
    \/ Collect
    \/ Resolve
    \/ Calculate
    \/ Update
    \/ Rerun

Spec == Init /\ [][Next]_vars


----------------------------------------------------------------------------
(* Reading a descriptor back, for the properties *)

\* The entries between the braces of a dependency block, from index i on
RECURSIVE ReadEntries(_, _, _)
ReadEntries(t, i, acc) ==
    LET k  == SkipWS(t, i)
        q2 == FindChar(t, Q, k + 1)
        lb == FindChar(t, "[", q2 + 1)
        rb == FindChar(t, "]", lb + 1)
    IN IF ~At(t, k, Q) \/ q2 = 0 \/ lb = 0 \/ rb = 0 THEN acc
       ELSE ReadEntries(t, IF At(t, rb + 1, ",") THEN rb + 2 ELSE rb + 1,
                        Put(acc, SubSeq(t, k + 1, q2 - 1),
                            QuotedMatches(SubSeq(t, lb, rb), 1, FALSE)))

\* The mapping recorded by the dependency block of the target of the given
\* kind and name in a text; the empty mapping if the target has no block
RecordedDependencies(text, type, name) ==
    LET start_pos == TargetPatternSearch(text, type, name, 1)
        scan      == ScanParens(text, start_pos, 0, FALSE)
        extent    == SubSeq(text, start_pos, scan.pos)
        b         == FindStr(extent, <<"module_dependencies">>, 1)
        open      == FindChar(extent, "{", b + 1)
    IN IF start_pos = 0 \/ b = 0 \/ open = 0 THEN EmptyMap
       ELSE ReadEntries(extent, open + 1, EmptyMap)

Targets == {build_targets.map[n] : n \in DOMAIN build_targets.map}

Completed == pc = "done" /\ exitCode = 0 /\ readable

----------------------------------------------------------------------------
(* Properties *)

\* C3: in the dependency graph no module is an element of its own dependency
\* list, whether it imports its full name or a partition alias of itself.
SelfReferenceElimination ==
    \A m \in DOMAIN module_deps : m \notin Range(module_deps[m])

\* C2: once a run has completed, the dependency block each target records in
\* the descriptor equals the target's computed projection; in particular no
\* stale entries remain where the projection is empty.
BlocksMatchProjections ==
    (Completed /\ writable) =>
        \A t \in Targets :
            RecordedDependencies(disk, t.type, t.name) = t.module_dependencies.map

\* C1: a second run on the unchanged tree computes the text the first run
\* left on disk and performs no write.
Idempotence ==
    (run = 2 /\ Completed /\ writable) => (content = firstDisk /\ ~wrote)


\* The module table a single task produces from the whole file list
RECURSIVE OneWorkerTable(_, _)
OneWorkerTable(files, table) ==
    IF files = <<>> THEN table
    ELSE LET info == extractModuleInfo(FileOf(Head(files)))
         IN OneWorkerTable(Tail(files),
                           IF info.name # <<>> THEN Put(table, info.name, info) ELSE table)

ScanOver == pc \in {"calc", "update", "done"} /\ ixx_files # <<>> /\ hw >= 1

\* The task of worker k has run through its whole chunk
ChunkScanned(k) == workers[k].j = workers[k].end

AllFinished == \A k \in 1..Len(workers) : ChunkScanned(k)

WorkerRan ==
    /\ pc = "workers"
    /\ Len(workers') = Len(workers)
    /\ \E k \in 1..Len(workers) : workers'[k].j # workers[k].j

ScanParallelismInvariance ==
    ScanOver => modules = OneWorkerTable(ixx_files, EmptyMap)

\* C5 witness: two workers have scanned files that declare the same module
CollisionAcrossWorkers ==
    /\ ScanOver
    /\ Len(workers) >= 2
    /\ \E a, b \in 1..Len(workers) :
         /\ a # b
         /\ \E x \in Range(workers[a].results), y \in Range(workers[b].results) :
                x.name = y.name /\ x.imports # y.imports

\* C6 as stated: updateBuildFile writes the descriptor if and only if the
\* edited text differs from the text read; when they are equal the file is
\* not opened for writing.
WriteIffChanged ==
    Completed => /\ wrote <=> content # original_content
                 /\ content = original_content => ~openedForWrite

\* C6 as amended: the descriptor is opened for writing if and only if the
\* edited text differs from the text read, the edited text is written if and
\* only if it differs and that open succeeds, and otherwise the file keeps
\* the text read.
WriteOnlyOnChange ==
    Completed => /\ openedForWrite <=> content # original_content
                 /\ wrote <=> (content # original_content /\ writable)
                 /\ disk = IF wrote THEN content ELSE original_content

\* C6 witness: a run that applied edits and arrived at the text it had read
NoOpRun ==
    /\ Completed
    /\ \E t \in Targets : ~Skipped(t)
    /\ content = original_content
    /\ ~openedForWrite
    /\ disk = original_content

\* C7: the process exits with status 1 when the root is missing, when there
\* is no descriptor and when the descriptor cannot be read, with 0 only on
\* success, and attempts no write whenever it exits with 1.
ExitStatus ==
    pc = "done" =>
        /\ (~rootExists \/ buildLoc = "none" \/ ~readable) => exitCode = 1
        /\ exitCode = 0 => (rootExists /\ buildLoc # "none" /\ readable)
        /\ exitCode = 1 => ~openedForWrite

IsSorted(v) == \A i \in 1..(Len(v) - 1) : ~StrLess(v[i + 1], v[i])

\* The module_interfaces field of a target is a glob expression
UsesGlob(text, t) ==
    LET start_pos == TargetPatternSearch(text, t.type, t.name, 1)
        scan      == ScanParens(text, start_pos, 0, FALSE)
    IN /\ start_pos # 0
       /\ FindStr(InterfacesSearch(SubSeq(text, start_pos, scan.pos), 1),
                  <<"glob", "(">>, 1) # 0

\* C9: the interface files a glob expression expands to are in sorted order
\* and are the same sequence for every order in which the directory iterator
\* returns the entries.
GlobExpansionDeterminism ==
    pc \in {"scan", "workers", "calc", "update"} =>
        \A t \in Targets :
            UsesGlob(disk, t) =>
                /\ IsSorted(t.module_interfaces)
                /\ \A o \in DirOrders(tree) :
                     parseBuildFile(disk, build_file_path, tree, buildLoc, o)
                        .map[t.name].module_interfaces = t.module_interfaces

\* C10: the block text synthesized for a target depends only on its
\* projection as a mapping: targets with equal projections get equal text,
\* whatever the order in which their interface files were visited.
StableKeyOrder ==
    pc \in {"update", "done"} =>
        \A t1, t2 \in Targets :
            t1.module_dependencies.map = t2.module_dependencies.map
                => NewModuleDeps(t1, modules, hashOrder) = NewModuleDeps(t2, modules, hashOrder)


\* The extents of the target declarations of a text that the reader stores
\* (the bracket scan comes back to zero), in order of appearance
Extents(text) ==
    LET closed(m) == ScanParens(text, m.position, 0, FALSE).paren_count = 0
        ms == SelectSeq(TargetMatches(text, 1), closed)
    IN [k \in 1..Len(ms) |->
          [name |-> ms[k].name,
           lo   |-> ms[k].position,
           hi   |-> Min(ScanParens(text, ms[k].position, 0, FALSE).pos, Len(text))]]

\* Index of the separator that closes the module_interfaces field starting
\* at index f of an extent, 0 if there is none
InterfacesFieldEnd(o, f) ==
    LET value == InterfacesMatchAt(o, f)
        from  == FindStr(o, value, f)
        sep   == from + Len(value)
    IN IF value # <<>> /\ At(o, sep, ",") THEN sep ELSE 0

\* The new extent is the old one with its dependency block replaced by block
BlockReplaced(o, n, block) ==
    \E i \in {k \in 1..Len(o) : o[k] = "module_dependencies"} :
        \E j \in {k \in i..Len(o) : o[k] = "}" \/ (o[k] = "," /\ o[k - 1] = "}")} :
            /\ \A k \in i..(j - 1) : o[k] = "}" => k = j - 1
            /\ n = SubSeq(o, 1, i - 1) \o block \o SubSeq(o, j + 1, Len(o))

\* The new extent is the old one with block put on a line of its own right
\* after the module_interfaces field
BlockInserted(o, n, block) ==
    \E f \in {k \in 1..Len(o) : o[k] = "module_interfaces"} :
        LET i == InterfacesFieldEnd(o, f)
        IN /\ i # 0
           /\ n = SubSeq(o, 1, i) \o <<"\n", "    ">> \o block \o SubSeq(o, i + 1, Len(o))

\* The extent of one target is unchanged, or it belongs to a target with a
\* non-empty projection and only its dependency block differs
ExtentFrame(o, n, name) ==
    \/ n = o
    \/ /\ name \in DOMAIN build_targets.map
       /\ ~Skipped(build_targets.map[name])
       /\ LET block == NewModuleDeps(build_targets.map[name], modules, hashOrder)
          IN BlockReplaced(o, n, block) \/ BlockInserted(o, n, block)

\* The text between the end of extent k and the start of extent k + 1
\* (k = 0: before the first extent; k = Len(es): after the last)
Gap(text, es, k) ==
    SubSeq(text,
           IF k = 0 THEN 1 ELSE es[k].hi + 1,
           IF k = Len(es) THEN Len(text) ELSE es[k + 1].lo - 1)

----------------------------------------------------------------------------
(* Properties of the dependency graph *)

\* The dependency graph has been built in the current invocation
Resolved ==
    \/ pc \in {"calc", "update"}
    \/ pc \in {"done", "crashed"} /\ exitCode \in {0, 134}

HasPartitionSeparator(m) == \E i \in 1..Len(m) : m[i] = ":"

\* The name up to its first partition separator, the name itself if it has none
ParentOf(m) ==
    IF HasPartitionSeparator(m)
    THEN SubSeq(m, 1, MinOf({i \in 1..Len(m) : m[i] = ":"}) - 1)
    ELSE m

\* The other modules of the table whose names begin with "P:", P a primary module
PartitionsOf(P) ==
    IF HasPartitionSeparator(P) THEN {}
    ELSE {o \in DOMAIN modules : StartsWith(o, P \o <<":">>)}

StrictlyAscending(v) == \A i \in 1..(Len(v) - 1) : StrLess(v[i], v[i + 1])

\* C11: the dependency list of every primary module of the table contains
\* all table modules named "P:...", whether it imports them or not; a primary
\* module without imports depends on exactly its partitions, in ascending
\* order (p with p:a and p:b on [p:a, p:b]).
PartitionFolding ==
    Resolved =>
        \A P \in DOMAIN modules :
            (~HasPartitionSeparator(P) /\ PartitionsOf(P) # {}) =>
                /\ P \in DOMAIN module_deps
                /\ PartitionsOf(P) \subseteq Range(module_deps[P])
                /\ modules[P].imports = <<>> =>
                      /\ Range(module_deps[P]) = PartitionsOf(P)
                      /\ StrictlyAscending(module_deps[P])
                      /\ PartitionsOf(P) = {p_a, p_b} => module_deps[P] = <<p_a, p_b>>

\* C11 witness: p, which imports nothing, resolved to [p:a, p:b]
PartitionsFolded ==
    /\ Resolved
    /\ {<<"p">>, p_a, p_b} \subseteq DOMAIN modules
    /\ modules[<<"p">>].imports = <<>>
    /\ <<"p">> \in DOMAIN module_deps
    /\ module_deps[<<"p">>] = <<p_a, p_b>>

\* C12: no stored dependency begins with the partition separator; an import
\* written ":x" in module m is stored as parent(m) followed by ":x".
BarePartitionQualification ==
    Resolved =>
        /\ \A m \in DOMAIN module_deps :
              \A d \in Range(module_deps[m]) : ~StartsWith(d, <<":">>)
        /\ \A m \in DOMAIN modules :
              \A i \in Range(modules[m].imports) :
                  StartsWith(i, <<":">>) =>
                      /\ m \in DOMAIN module_deps
                      /\ (ParentOf(m) \o i) \in Range(module_deps[m])

\* C12 witness: ":b" imported by the partition p:a is stored as p:b
BarePartitionQualified ==
    /\ Resolved
    /\ p_a \in DOMAIN module_deps
    /\ <<":", "b">> \in Range(modules[p_a].imports)
    /\ p_b \in Range(module_deps[p_a])
    /\ <<"p", ":", "a", ":", "b">> \notin Range(module_deps[p_a])

\* The imports of m that the resolver does not drop
KeptImports(m) == {i \in Range(modules[m].imports) : i # <<>> /\ i # m}

\* C17: every key of the dependency graph maps to a non-empty, strictly
\* ascending list without an empty string; a module with neither a kept
\* import nor a partition has no key; an import that names a module is
\* stored as written, whether or not that module is in the table.
GraphEntryShape ==
    Resolved =>
        /\ DOMAIN module_deps \subseteq DOMAIN modules
        /\ \A m \in DOMAIN module_deps :
              /\ module_deps[m] # <<>>
              /\ StrictlyAscending(module_deps[m])
              /\ <<>> \notin Range(module_deps[m])
        /\ \A m \in DOMAIN modules :
              /\ (KeptImports(m) = {} /\ PartitionsOf(m) = {}) => m \notin DOMAIN module_deps
              /\ \A i \in KeptImports(m) :
                    ~StartsWith(i, <<":">>) =>
                        m \in DOMAIN module_deps /\ i \in Range(module_deps[m])

\* C17 witness: app depends on math although no file declares math, and
\* another module of the table has no key
DanglingImportKept ==
    /\ Resolved
    /\ math \notin DOMAIN modules
    /\ app \in DOMAIN module_deps
    /\ module_deps[app] = <<math>>
    /\ \E m \in DOMAIN modules : m \notin DOMAIN module_deps

----------------------------------------------------------------------------
(* Properties of the scan *)

\* C13: for every number of files n >= 0 and every reported parallelism
\* h >= 0 the scan ends normally: the process is never stopped inside
\* scanProjectModules, control goes on to the merge and the resolver.
ScanTerminatesNormally ==
    ~(pc = "crashed" /\ exitCode = 136)

AllSpawned ==
    /\ pc \in {"workers", "calc", "update", "done", "crashed"}
    /\ Len(ixx_files) >= 1
    /\ Len(workers) >= 1
    /\ Len(workers) = Min(hw, Len(ixx_files))

ChunkLength(k) == workers[k].end - workers[k].start

\* C16: with n >= 1 files and w = min(h, n) >= 1 workers the ranges
\* [start, end) of the workers are contiguous, pairwise disjoint and cover
\* 0..n-1 once, in order; every range has n div w or n div w + 1 indices
\* and exactly the first n mod w workers have the larger size.
ChunkPartition ==
    AllSpawned =>
        LET n == Len(ixx_files)
            w == Len(workers)
        IN /\ workers[1].start = 0
           /\ workers[w].end = n
           /\ \A k \in 1..(w - 1) : workers[k + 1].start = workers[k].end
           /\ \A j \in 0..(n - 1) :
                Cardinality({k \in 1..w : workers[k].start <= j /\ j < workers[k].end}) = 1
           /\ \A k \in 1..w :
                /\ ChunkLength(k) \in {n \div w, (n \div w) + 1}
                /\ ChunkLength(k) = (n \div w) + 1 <=> k <= n % w

\* C16 witness: the files do not divide evenly among several workers
UnevenChunks ==
    /\ AllSpawned
    /\ Len(workers) >= 2
    /\ Len(ixx_files) % Len(workers) # 0
    /\ ChunkLength(1) = ChunkLength(Len(workers)) + 1

----------------------------------------------------------------------------
(* Properties of the patcher's misses and of the two descriptor locations *)

\* updateBuildFile of the current invocation has read the descriptor and gone
\* through its loop, to the end or to an exception
UpdateRan == pc \in {"done", "crashed"} /\ exitCode \in {0, 134} /\ readable

\* The patcher cannot locate the target in the text: the pattern of its kind
\* and name is no regular expression or matches nowhere, the bracket scan
\* from the match does not come back to zero, or the extent has neither a
\* dependency block nor a separator right behind the interface-files field
Unlocatable(text, t) ==
    LET start_pos == TargetPatternSearch(text, t.type, t.name, 1)
        scan      == ScanParens(text, start_pos, 0, FALSE)
        extent    == SubSeq(text, start_pos, scan.pos)
        fields    == {k \in 1..Len(extent) : extent[k] = "module_interfaces"}
    IN \/ ~NamePattern(t.name).ok
       \/ start_pos = 0
       \/ scan.paren_count # 0
       \/ /\ \A k \in 1..Len(extent) : extent[k] # "module_dependencies"
          /\ fields = {} \/ InterfacesFieldEnd(extent, MinOf(fields)) = 0

MissedTargets(text) == {t \in Targets : ~Skipped(t) /\ Unlocatable(text, t)}

\* The names of ns without the names of the targets ts
RECURSIVE Without(_, _)
Without(ns, ts) ==
    IF ns = <<>> THEN <<>>
    ELSE IF \E t \in ts : t.name = Head(ns) THEN Without(Tail(ns), ts)
    ELSE <<Head(ns)>> \o Without(Tail(ns), ts)

\* The text the patcher arrives at when the targets ts are left out
EditedWithout(text, ts) ==
    EditAll(text, Without(IterationOrder(build_targets, hashOrder), ts),
            build_targets, modules, hashOrder)

\* C14: when the patcher cannot locate a target with a non-empty projection,
\* it leaves the text of that target as it is and arrives at the text it
\* would arrive at for the other targets alone.
PatchMissIsNoOp ==
    (UpdateRan /\ MissedTargets(original_content) # {}) =>
        /\ pc = "done"
        /\ content = EditedWithout(original_content, MissedTargets(original_content))
        /\ LET eo == Extents(original_content)
               en == Extents(content)
           IN /\ Len(en) = Len(eo)
              /\ \A k \in 1..Len(eo) :
                    (\E t \in MissedTargets(original_content) : t.name = eo[k].name) =>
                        SubSeq(content, en[k].lo, en[k].hi)
                            = SubSeq(original_content, eo[k].lo, eo[k].hi)

\* The descriptor of the end-to-end scenario for each descriptor location
ScenarioText(loc) == IF loc = "src" THEN BaseText ELSE RootBaseText

\* C15: for the project of math (no imports) and app (imports math) and one
\* target that lists both interface files, after one run the block of the
\* target has the entry "app": ["math"] and no entry, or an empty one, for
\* math; for the descriptor in the subdirectory and in the project root.
EndToEndScenario ==
    (/\ Completed /\ run = 1 /\ writable /\ hw >= 1
     /\ tree = BaseTree
     /\ original_content = ScenarioText(buildLoc)) =>
        LET rec == RecordedDependencies(disk, "cc_module_library", <<"a">>)
        IN /\ app \in DOMAIN rec
           /\ rec[app] = <<math>>
           /\ math \in DOMAIN rec => rec[math] = <<>>

\* The file a recorded interface path names, taken relative to the
\* directory of the descriptor, against which the reader recorded it
ClaimedFile(path) == FileAt(tree, PathJoin(build_file_path, path))

\* C18: the calculator resolves a recorded interface path against the
\* directory the reader recorded it relative to: every interface file that
\* exists and is claimed by a target contributes its module's dependency
\* list to the projection of the target, for both descriptor locations.
BaseDirectoryAgreement ==
    (pc \in {"update", "done"} /\ exitCode # 1) =>
        \A t \in Targets :
            \A path \in Range(t.module_interfaces) :
                \A f \in ClaimedFile(path) :
                    (f.decl # <<>> /\ f.decl \in DOMAIN module_deps) =>
                        /\ f.decl \in DOMAIN t.module_dependencies.map
                        /\ t.module_dependencies.map[f.decl] = module_deps[f.decl]


====
